---- MODULE Spec2Model ----
(***************************************************************************)
(* Model of the analytics dashboard's time-bucketed aggregation            *)
(* (DashboardEntry.chartData / DashboardEntry.processTimelineData).        *)
(*                                                                         *)
(* Time is counted in minutes since the Unix epoch.  Every duration of the *)
(* source is a whole number of minutes (12h, 1h, 24h, 2h, 7d, 30d), and    *)
(* Math.floor(t / intervalMs) * intervalMs is exact on instants of this    *)
(* size, so the bucket arithmetic is integer arithmetic.                   *)
(***************************************************************************)
EXTENDS Integers, Sequences, FiniteSets, TLC

VARIABLES
    conversation_history,  \* stats.conversation_history: the event collection
    timeRange,             \* the selected TimeRange
    clock,                 \* the wall clock read by `new Date()`
    tzOffset,              \* the local time zone of the formatter, minutes east of UTC
    ticks,                 \* how often the clock has advanced
    chartData,             \* the last computation (NoRun before the first one)
    prevChartData,         \* the computation before that one
    \* DashboardEntry (the component around processTimelineData)
    stats,                 \* useState<StatsResponse | null>
    entryLoading,          \* DashboardEntry's `loading`
    entryError,            \* DashboardEntry's `error`
    getStatsCall,          \* the getStats() promise: "pending" or "settled"
    userChartData,         \* processTimelineData.userChartData
    bucketRefs,            \* the bucket objects each Map of the last run refers to
    provided,              \* the body of the provider's response to getStats
    \* App
    loading,               \* useState(true)
    loadingProgress,       \* useState(0)
    totalUsers,            \* useState(0)
    totalConversations,    \* useState(0)
    educationStats,        \* useState<EducationStats | null>(null)
    conversations,         \* useState<ConversationInfo[]>([])
    notes,                 \* useState<NoteInfo[]>([])
    dailyUsers,            \* useState<DailyStats[]>([])
    dailyConversations,    \* useState<DailyStats[]>([])
    userTimeRange,         \* useState<TimeRange>('1w')
    conversationTimeRange, \* useState<TimeRange>('1w')
    fetchData,             \* where the async function fetchData stands
    issued,                \* the stats requests sent so far, by position
    responded,             \* the stats requests whose fetch() has resolved
    calls,                 \* the fetchTimeRangeData calls awaiting their response
    callsIssued,           \* how many fetchTimeRangeData calls were made
    timer,                 \* the setTimeout of fetchData is pending
    view,                  \* useState<View>('dashboard')
    rangeArgument,         \* the argument of a getDateRange call
    dateRange,             \* the value getDateRange returned
    \* NotesPage, RecentConversations, UserBackgroundInfo
    component,             \* which of the three components is mounted
    items,                 \* the prop `notes` or `conversations`
    backgroundStats,       \* the prop `stats` of UserBackgroundInfo
    activeCategory,        \* useState<CategoryType>('education')
    currentPage,           \* useState(1)
    sortedItems,           \* sortedNotes, sortedConversations or sortedItems
    currentItems,          \* currentNotes, currentConversations or currentItems
    \* calculateAverageRating
    ratedConversations,    \* the argument `conversations`
    averageRating          \* the value returned

\* the variables of the bucketizer alone
chartVars == <<conversation_history, prevChartData>>

\* the variables of the component DashboardEntry
entryVars == <<stats, entryLoading, entryError, getStatsCall, userChartData,
               bucketRefs, provided>>

\* the variables of the component App
appVars == <<loading, loadingProgress, totalUsers, totalConversations,
             educationStats, conversations, notes, dailyUsers,
             dailyConversations, userTimeRange, conversationTimeRange,
             fetchData, issued, responded, calls, callsIssued, timer, view>>

\* a call of App.getDateRange
dateVars == <<rangeArgument, dateRange>>

\* the paged components and a call of calculateAverageRating
componentVars == <<component, items, backgroundStats, activeCategory,
                   currentPage, sortedItems, currentItems,
                   ratedConversations, averageRating>>

vars == <<conversation_history, timeRange, clock, tzOffset, ticks,
          chartData, prevChartData, entryVars, appVars, dateVars, componentVars>>

----------------------------------------------------------------------------
(* Bounds of the model *)

MaxEvents == 3
MaxTicks == 1
MaxHistory == 1
MaxTimeline == 1
MaxEntryTicks == 1
MaxSelections == 1
MaxDays == 9

(* Units *)

MinutesPerHour == 60
HoursPerDay == 24
MinutesPerDay == HoursPerDay * MinutesPerHour

\* 2024-01-02T12:00:00Z (day 19724 of the epoch, noon)
NoonInstant == 19724 * MinutesPerDay + 12 * MinutesPerHour
\* 2024-01-03T00:00:00Z
MidnightInstant == 19725 * MinutesPerDay

InitialClocks == {NoonInstant, MidnightInstant - 1}
TzOffsets == {0, 0 - 5 * MinutesPerHour}

----------------------------------------------------------------------------
(* type TimeRange and the switch over it *)

TimeRange == {"12h", "1d", "7d", "30d"}

\* the switch with the 12h lookback pasted into case '1d'
LookbackPasted(range) ==
    CASE range = "12h" -> 12 * MinutesPerHour
      [] range = "1d"  -> 12 * MinutesPerHour
      [] range = "7d"  -> 7 * 24 * MinutesPerHour
      [] range = "30d" -> 30 * 24 * MinutesPerHour

\* now.getTime() - startTime.getTime(), per case of the switch
Lookback(range) ==
    CASE range = "12h" -> 12 * MinutesPerHour
      [] range = "1d"  -> 24 * MinutesPerHour
      [] range = "7d"  -> 7 * 24 * MinutesPerHour
      [] range = "30d" -> 30 * 24 * MinutesPerHour

\* the switch with the 1 hour interval pasted into case '1d'
IntervalMsPasted(range) ==
    CASE range = "12h" -> MinutesPerHour
      [] range = "1d"  -> MinutesPerHour
      [] range = "7d"  -> 24 * MinutesPerHour
      [] range = "30d" -> 24 * MinutesPerHour

\* intervalMs, per case of the switch
IntervalMs(range) ==
    CASE range = "12h" -> MinutesPerHour
      [] range = "1d"  -> 2 * MinutesPerHour
      [] range = "7d"  -> 24 * MinutesPerHour
      [] range = "30d" -> 24 * MinutesPerHour

StartTime(range, now) == now - Lookback(range)

----------------------------------------------------------------------------
(* Dates.  new Date(s) is a valid Date holding an instant, or an Invalid   *)
(* Date whose getTime() is NaN; every comparison with NaN is false.        *)

ValidDate(t) == [valid |-> TRUE, time |-> t]
InvalidDate == [valid |-> FALSE, time |-> 0]

\* a created_at string: an ISO-8601 timestamp, or text that does not parse
IsoString(t) == [iso |-> TRUE, instant |-> t]
Unparseable == [iso |-> FALSE, instant |-> 0]

\* new Date(conv.created_at) with the current time standing in for a string
\* that does not parse
NewDateOrNow(created_at) ==
    IF created_at.iso THEN ValidDate(created_at.instant) ELSE ValidDate(clock)

\* new Date(conv.created_at)
NewDate(created_at) ==
    IF created_at.iso THEN ValidDate(created_at.instant) ELSE InvalidDate

\* convDate >= startTime && convDate <= now
InTimeRange(convDate, startTime, now) ==
    /\ convDate.valid
    /\ convDate.time >= startTime
    /\ convDate.time <= now

----------------------------------------------------------------------------
(* formatLabel.  toLocaleTimeString / toLocaleDateString render the local  *)
(* wall-clock reading of the instant: the 12-hour time "hh:mm AM" for the  *)
(* ranges 12h and 1d, the calendar date "Jan 2" for the ranges 7d and 30d. *)

LocalMinutes(t, tz) == t + tz

\* the civil (year, month, day) of a day number counted from 1970-01-01
CivilFromDays(dayNumber) ==
    LET z   == dayNumber + 719468
        era == z \div 146097
        doe == z - era * 146097
        yoe == (doe - doe \div 1460 + doe \div 36524 - doe \div 146096) \div 365
        doy == doe - (365 * yoe + yoe \div 4 - yoe \div 100)
        mp  == (5 * doy + 2) \div 153
        d   == doy - (153 * mp + 2) \div 5 + 1
        m   == IF mp < 10 THEN mp + 3 ELSE mp - 9
        y   == yoe + era * 400 + (IF m <= 2 THEN 1 ELSE 0)
    IN  [year |-> y, month |-> m, day |-> d]

MonthShort == <<"Jan", "Feb", "Mar", "Apr", "May", "Jun",
                "Jul", "Aug", "Sep", "Oct", "Nov", "Dec">>

\* date.toLocaleTimeString('en-US', { hour: '2-digit', minute: '2-digit' })
ToLocaleTimeString(t, tz) ==
    LET minuteOfDay == LocalMinutes(t, tz) % MinutesPerDay
        hour24      == minuteOfDay \div MinutesPerHour
    IN  [hour      |-> IF hour24 % 12 = 0 THEN 12 ELSE hour24 % 12,
         minute    |-> minuteOfDay % MinutesPerHour,
         dayPeriod |-> IF hour24 < 12 THEN "AM" ELSE "PM"]

\* date.toLocaleDateString('en-US', { month: 'short', day: 'numeric' })
ToLocaleDateString(t, tz) ==
    LET civil == CivilFromDays(LocalMinutes(t, tz) \div MinutesPerDay)
    IN  [month |-> MonthShort[civil.month], day |-> civil.day]

\* formatLabel, per case of the switch
FormatLabel(range, t, tz) ==
    IF range \in {"12h", "1d"}
    THEN ToLocaleTimeString(t, tz)
    ELSE ToLocaleDateString(t, tz)

----------------------------------------------------------------------------
(* Map<number, { label, count }>: entries in insertion order; set()        *)
(* replaces the value of a key already present and appends a new key.      *)

MapHas(map, key) == \E i \in 1..Len(map) : map[i].timestamp = key

MapSet(map, key, value) ==
    IF MapHas(map, key)
    THEN [i \in 1..Len(map) |->
            IF map[i].timestamp = key
            THEN [timestamp |-> key, label |-> value.label, count |-> value.count]
            ELSE map[i]]
    ELSE Append(map, [timestamp |-> key, label |-> value.label,
                      count |-> value.count])

\* bucket.count = 1 in place of bucket.count += 1
MapMarkOne(map, key) ==
    [i \in 1..Len(map) |->
        IF map[i].timestamp = key
        THEN [map[i] EXCEPT !.count = 1]
        ELSE map[i]]

\* bucket.count += 1 on the object buckets.get(key) returns
MapIncrement(map, key) ==
    [i \in 1..Len(map) |->
        IF map[i].timestamp = key
        THEN [map[i] EXCEPT !.count = @ + 1]
        ELSE map[i]]

\* Math.ceil(date.getTime() / intervalMs) * intervalMs
BucketTimestampCeil(time, intervalMs) ==
    ((time + intervalMs - 1) \div intervalMs) * intervalMs

\* Math.floor(date.getTime() / intervalMs) * intervalMs
BucketTimestamp(time, intervalMs) == (time \div intervalMs) * intervalMs

----------------------------------------------------------------------------
(* The body of the useMemo callback *)

\* stats.conversation_history.filter(...) with the bounds compared strictly
FilterStrict(history, startTime, now) ==
    SelectSeq(history, LAMBDA conv :
        LET convDate == NewDate(conv.created_at)
        IN  convDate.valid /\ convDate.time > startTime /\ convDate.time <= now)

\* stats.conversation_history.filter(...) without the upper bound
FilterNoUpperBound(history, startTime, now) ==
    SelectSeq(history, LAMBDA conv :
        LET convDate == NewDate(conv.created_at)
        IN  convDate.valid /\ convDate.time >= startTime)

\* the filter replaced by a scan that stops at the first event out of range,
\* as if the collection were sorted by time
FilterUntilOutOfRange(history, startTime, now) ==
    LET outOfRange == {i \in 1..Len(history) :
                          ~InTimeRange(NewDate(history[i].created_at), startTime, now)}
        stop == IF outOfRange = {}
                THEN Len(history) + 1
                ELSE CHOOSE i \in outOfRange : \A j \in outOfRange : i <= j
    IN  SubSeq(history, 1, stop - 1)

\* const filteredConversations = stats.conversation_history.filter(...)
FilterConversations(history, startTime, now) ==
    SelectSeq(history, LAMBDA conv :
        InTimeRange(NewDate(conv.created_at), startTime, now))

\* The loops below add intervalMs to currentTime until it passes now.  Their
\* iterations are taken in two halves, the cursors before MiddleCursor and
\* the cursors from MiddleCursor on; the Map the first half leaves is a value
\* (firstHalf) before the second half starts, as in the sequential loop.
MiddleCursor(currentTime, now, intervalMs) ==
    currentTime + (((now - currentTime) \div intervalMs + 1) \div 2) * intervalMs

RECURSIVE InitializeBucketsExclusive(_, _, _, _, _, _)
\* the initialisation loop run `while (currentTime < now)`
InitializeBucketsExclusive(currentTime, now, intervalMs, range, tz, buckets) ==
    IF currentTime >= now
    THEN buckets
    ELSE IF currentTime + intervalMs >= now
    THEN MapSet(buckets, BucketTimestamp(currentTime, intervalMs),
                [label |-> FormatLabel(range, currentTime, tz), count |-> 0])
    ELSE CHOOSE result \in
            {InitializeBucketsExclusive(MiddleCursor(currentTime, now - 1, intervalMs),
                 now, intervalMs, range, tz, firstHalf) :
               firstHalf \in
                 {InitializeBucketsExclusive(currentTime,
                      MiddleCursor(currentTime, now - 1, intervalMs),
                      intervalMs, range, tz, buckets)}} : TRUE

RECURSIVE InitializeBucketsFromStart(_, _, _, _, _, _)
\* the initialisation loop keyed by currentTime itself, not by its interval
InitializeBucketsFromStart(currentTime, now, intervalMs, range, tz, buckets) ==
    IF currentTime > now
    THEN buckets
    ELSE IF currentTime + intervalMs > now
    THEN MapSet(buckets, currentTime,
                [label |-> FormatLabel(range, currentTime, tz), count |-> 0])
    ELSE CHOOSE result \in
            {InitializeBucketsFromStart(MiddleCursor(currentTime, now, intervalMs),
                 now, intervalMs, range, tz, firstHalf) :
               firstHalf \in
                 {InitializeBucketsFromStart(currentTime,
                      MiddleCursor(currentTime, now, intervalMs) - 1,
                      intervalMs, range, tz, buckets)}} : TRUE

RECURSIVE InitializeBuckets(_, _, _, _, _, _)
\* while (currentTime <= now) { buckets.set(bucketTimestamp, { label, count: 0 });
\*                              currentTime = new Date(currentTime.getTime() + intervalMs); }
InitializeBuckets(currentTime, now, intervalMs, range, tz, buckets) ==
    IF currentTime > now
    THEN buckets
    ELSE IF currentTime + intervalMs > now
    THEN MapSet(buckets, BucketTimestamp(currentTime, intervalMs),
                [label |-> FormatLabel(range, currentTime, tz), count |-> 0])
    ELSE CHOOSE result \in
            {InitializeBuckets(MiddleCursor(currentTime, now, intervalMs),
                 now, intervalMs, range, tz, firstHalf) :
               firstHalf \in
                 {InitializeBuckets(currentTime,
                      MiddleCursor(currentTime, now, intervalMs) - 1,
                      intervalMs, range, tz, buckets)}} : TRUE

RECURSIVE CountConversationsNextInterval(_, _, _)
\* the counting loop with the event's interval rounded up instead of down
CountConversationsNextInterval(filtered, buckets, intervalMs) ==
    IF filtered = <<>>
    THEN buckets
    ELSE LET convDate == NewDate(Head(filtered).created_at)
             bucketTimestamp ==
                 BucketTimestamp(convDate.time + intervalMs - 1, intervalMs)
         IN  CountConversationsNextInterval(Tail(filtered),
                 IF MapHas(buckets, bucketTimestamp)
                 THEN MapIncrement(buckets, bucketTimestamp)
                 ELSE buckets,
                 intervalMs)

RECURSIVE CountConversations(_, _, _)
\* filteredConversations.forEach((conv) => { ... if (bucket) bucket.count += 1 })
CountConversations(filtered, buckets, intervalMs) ==
    IF filtered = <<>>
    THEN buckets
    ELSE LET convDate == NewDate(Head(filtered).created_at)
             bucketTimestamp == BucketTimestamp(convDate.time, intervalMs)
         IN  CountConversations(Tail(filtered),
                 IF MapHas(buckets, bucketTimestamp)
                 THEN MapIncrement(buckets, bucketTimestamp)
                 ELSE buckets,
                 intervalMs)

\* Array.from(buckets.entries()).map(([timestamp, { label, count }]) => ...)
ToEntries(buckets) ==
    [i \in 1..Len(buckets) |->
        [time          |-> buckets[i].label,
         conversations |-> buckets[i].count,
         timestamp     |-> buckets[i].timestamp]]

\* the comparator (a, b) => a.timestamp - b.timestamp
CompareTimestamp(a, b) == a.timestamp - b.timestamp

\* Array.prototype.sort is a stable sort: the entry at index i ends up behind
\* every entry that compares smaller and every earlier entry that compares equal.
SortedPosition(entries, i) ==
    1 + Cardinality({j \in 1..Len(entries) :
            \/ CompareTimestamp(entries[j], entries[i]) < 0
            \/ CompareTimestamp(entries[j], entries[i]) = 0 /\ j < i})

\* .sort((a, b) => b.timestamp - a.timestamp)
SortDescending(entries) ==
    LET placed == {<<SortedPosition(entries, i), i>> : i \in 1..Len(entries)}
    IN  [k \in 1..Len(entries) |->
            entries[CHOOSE i \in 1..Len(entries) :
                        <<Len(entries) + 1 - k, i>> \in placed]]

\* .sort((a, b) => a.timestamp - b.timestamp)
SortByTimestamp(entries) ==
    LET placed == {<<SortedPosition(entries, i), i>> : i \in 1..Len(entries)}
    IN  [k \in 1..Len(entries) |->
            entries[CHOOSE i \in 1..Len(entries) : <<k, i>> \in placed]]

\* .map(({ time, conversations }) => ({ time, conversations }))
RemoveTimestamp(entries) ==
    [i \in 1..Len(entries) |->
        [time |-> entries[i].time, conversations |-> entries[i].conversations]]

\* One run of the useMemo callback (processTimelineData runs the same statements
\* for its conversation series).  `entries` is the sorted array that still
\* carries each bucket's timestamp; `data` is the array handed to the chart.
ChartData(history, range, now, tz) ==
    LET startTime == StartTime(range, now)
        intervalMs == IntervalMs(range)
        filteredConversations == FilterConversations(history, startTime, now)
        initialized == InitializeBuckets(startTime, now, intervalMs, range, tz, <<>>)
        buckets == CountConversations(filteredConversations, initialized, intervalMs)
        entries == SortByTimestamp(ToEntries(buckets))
    IN  [now       |-> now,
         startTime |-> startTime,
         range     |-> range,
         entries   |-> entries,
         data      |-> RemoveTimestamp(entries)]

NoRun == [now |-> 0, startTime |-> 0, range |-> "none",
          entries |-> <<>>, data |-> <<>>]

----------------------------------------------------------------------------
(* The inputs of a computation and the steps that apply it *)

\* The created_at values the provider may return when the clock reads c0 and
\* the range is `range`: the start of the window, the minute after it, `now`
\* itself, the minute after it, and a string that does not parse.
CreatedAtValues(range, c0) ==
    {IsoString(c0 - Lookback(range)), IsoString(c0 - Lookback(range) + 1),
     IsoString(c0), IsoString(c0 + 1), Unparseable}

RECURSIVE SeqsUpTo(_, _)
SeqsUpTo(S, n) ==
    IF n = 0
    THEN {<<>>}
    ELSE LET shorter == SeqsUpTo(S, n - 1)
         IN  shorter \cup {Append(q, x) : q \in shorter, x \in S}

Conversation(created_at) == [created_at |-> created_at]

\* useState<StatsResponse | null>(null)
NoStats == [conversation_history |-> <<>>, all_users_timeline |-> <<>>,
            isNull |-> TRUE]

NoRefs == [users |-> {}, conversations |-> {}]

\* the component is not mounted: its state keeps the initial values
EntryIdle ==
    /\ stats = NoStats
    /\ entryLoading = TRUE
    /\ entryError = "null"
    /\ getStatsCall = "pending"
    /\ userChartData = NoRun
    /\ bucketRefs = NoRefs
    /\ provided = NoStats

----------------------------------------------------------------------------
(* App: the values of its state before its effects run *)

\* type TimeRange = '2d' | '1w' | '1m' | '3m' | '6m'
AppTimeRange == {"2d", "1w", "1m", "3m", "6m"}

\* the five endpoints fetchData requests, in the order of its awaits
StatsEndpoints ==
    <<"get_overall_registered_user_count", "get_overall_conversation_count",
      "get_education_stats", "get_user_conversation_info", "get_user_note_info">>

StatsRequests == 1..Len(StatsEndpoints)

\* useState<DailyStats[]>([])
NoDailyStats == [value |-> "empty", range |-> "none", status |-> "none"]

NoDateRange == [startDate |-> <<>>, endDate |-> <<>>]

\* the useState initial values of App, no effect has run
AppIdle ==
    /\ loading = TRUE
    /\ loadingProgress = 0
    /\ totalUsers = "0"
    /\ totalConversations = "0"
    /\ educationStats = "null"
    /\ conversations = <<>>
    /\ notes = <<>>
    /\ dailyUsers = NoDailyStats
    /\ dailyConversations = NoDailyStats
    /\ userTimeRange = "1w"
    /\ conversationTimeRange = "1w"
    /\ fetchData = "idle"
    /\ issued = {}
    /\ responded = {}
    /\ calls = {}
    /\ callsIssued = 0
    /\ timer = FALSE
    /\ view = "dashboard"

\* getDateRange has not been called
DateRangeIdle ==
    /\ rangeArgument = "none"
    /\ dateRange = NoDateRange

\* UserBackgroundInfo's prop before any response: no entry in any category
NoEducationStats ==
    [education_levels |-> <<>>, study_fields |-> <<>>, institutions |-> <<>>]

\* calculateAverageRating has not been called
NoRating == [called |-> FALSE, totalRating |-> 0, ratingsCount |-> 1]

\* no paged component is mounted and calculateAverageRating was not called
ComponentsIdle ==
    /\ component = "none"
    /\ items = <<>>
    /\ backgroundStats = NoEducationStats
    /\ activeCategory = "education"
    /\ currentPage = 1
    /\ sortedItems = <<>>
    /\ currentItems = <<>>
    /\ ratedConversations = <<>>
    /\ averageRating = NoRating

Init ==
    /\ EntryIdle
    /\ AppIdle
    /\ DateRangeIdle
    /\ ComponentsIdle
    /\ clock \in InitialClocks
    /\ tzOffset \in TzOffsets
    /\ timeRange \in TimeRange
    /\ \E stamps \in SeqsUpTo(CreatedAtValues(timeRange, clock), MaxEvents) :
          conversation_history =
              [i \in 1..Len(stamps) |-> Conversation(stamps[i])]
    /\ ticks = 0
    /\ chartData = NoRun
    /\ prevChartData = NoRun

\* the wall clock advances by a minute
Tick ==
    /\ ticks < MaxTicks
    /\ ticks' = ticks + 1
    /\ clock' = clock + 1
    /\ UNCHANGED <<conversation_history, timeRange, tzOffset, chartData,
                   prevChartData, entryVars, appVars, dateVars, componentVars>>

\* the useMemo callback runs: `now` is read once, the Series is built from scratch
Compute ==
    /\ chartData' = ChartData(conversation_history, timeRange, clock, tzOffset)
    /\ prevChartData' = chartData
    /\ UNCHANGED <<conversation_history, timeRange, clock, tzOffset, ticks,
                   entryVars, appVars, dateVars, componentVars>>

\* the provider returns the same events in another order (`events` is an
\* arbitrary-order collection): two neighbours of the array change places
Reorder ==
    /\ \E i \in 1..(Len(conversation_history) - 1) :
          /\ conversation_history[i] # conversation_history[i + 1]
          /\ conversation_history' =
                [conversation_history EXCEPT ![i] = conversation_history[i + 1],
                                             ![i + 1] = conversation_history[i]]
    /\ UNCHANGED <<timeRange, clock, tzOffset, ticks, chartData, prevChartData,
                   entryVars, appVars, dateVars, componentVars>>

Next == Tick \/ Compute \/ Reorder

Spec == Init /\ [][Next]_vars

----------------------------------------------------------------------------
(* Vocabulary of the properties.  The interval of an instant is stated     *)
(* directly (key is a multiple of the interval and key <= t < key +        *)
(* interval), not through the operators of the computation.                *)

Ran == chartData.range # "none"
HasPrev == prevChartData.range # "none"

CeilDiv(a, b) == (a + b - 1) \div b

\* key is the interval-aligned timestamp of the instant t
IsKeyOf(key, t, interval) ==
    /\ key % interval = 0
    /\ key <= t
    /\ t < key + interval

Keys(run) == {run.entries[i].timestamp : i \in 1..Len(run.entries)}

RECURSIVE SumCounts(_)
SumCounts(entries) ==
    IF entries = <<>>
    THEN 0
    ELSE IF Len(entries) = 1
    THEN entries[1].conversations
    ELSE SumCounts(SubSeq(entries, 1, Len(entries) \div 2))
            + SumCounts(SubSeq(entries, Len(entries) \div 2 + 1, Len(entries)))

\* the events of the input collection whose timestamp parses and lies in [lo, hi]
EventsWithin(lo, hi) ==
    {i \in 1..Len(conversation_history) :
        /\ conversation_history[i].created_at.iso
        /\ conversation_history[i].created_at.instant >= lo
        /\ conversation_history[i].created_at.instant <= hi}

InWindow == EventsWithin(chartData.startTime, chartData.now)

\* the events whose timestamp parses and whose interval-aligned timestamp is key
EventsOfKey(key, interval) ==
    {i \in 1..Len(conversation_history) :
        /\ conversation_history[i].created_at.iso
        /\ IsKeyOf(key, conversation_history[i].created_at.instant, interval)}

NowAligned == chartData.now % IntervalMs(chartData.range) = 0

ExpectedBuckets(range) ==
    CASE range = "12h" -> 13
      [] range = "1d"  -> 13
      [] range = "7d"  -> 8
      [] range = "30d" -> 31

----------------------------------------------------------------------------
\* C1: a computed Series has ceil((now - startTime) / intervalDuration) + 1
\* buckets, that is 13 for 12h, 13 for 1d, 8 for 7d and 31 for 30d, whatever
\* the events are and whether or not now is interval-aligned.
BucketCountIsFixed ==
    Ran =>
        /\ Len(chartData.data) =
              CeilDiv(chartData.now - chartData.startTime,
                      IntervalMs(chartData.range)) + 1
        /\ Len(chartData.data) = ExpectedBuckets(chartData.range)

BucketCountWitness ==
    /\ Ran
    /\ chartData.range = "1d"
    /\ ~NowAligned
    /\ Len(conversation_history) >= 2
    /\ Len(chartData.data) = 13

\* C2: every event whose timestamp lies in [startTime, now] finds exactly one
\* bucket whose key is its interval-aligned timestamp and increments it: the
\* counts add up to the number of in-range events, and none is negative.
InRangeEventsAreCounted ==
    Ran =>
        /\ \A i \in InWindow :
              Cardinality({j \in 1..Len(chartData.entries) :
                  IsKeyOf(chartData.entries[j].timestamp,
                          conversation_history[i].created_at.instant,
                          IntervalMs(chartData.range))}) = 1
        /\ SumCounts(chartData.entries) = Cardinality(InWindow)
        /\ \A j \in 1..Len(chartData.entries) :
              chartData.entries[j].conversations >= 0

InRangeEventsWitness ==
    /\ Ran
    /\ Cardinality(InWindow) >= 2
    /\ \E i \in InWindow :
          conversation_history[i].created_at.instant = chartData.now
    /\ \E i \in InWindow :
          conversation_history[i].created_at.instant = chartData.startTime

\* C3: the counts of a Series sum to at most the number of input events, and
\* to exactly that number if and only if every event's timestamp lies in
\* [now - lookback, now].
SumIsAtMostEvents ==
    Ran =>
        /\ SumCounts(chartData.entries) <= Len(conversation_history)
        /\ (SumCounts(chartData.entries) = Len(conversation_history))
              <=> (InWindow = 1..Len(conversation_history))

SumIsAtMostEventsWitness ==
    /\ Ran
    /\ Len(conversation_history) >= 2
    /\ InWindow # {}
    /\ \E i \in 1..Len(conversation_history) :
          /\ i \notin InWindow
          /\ conversation_history[i].created_at.iso
          /\ conversation_history[i].created_at.instant > chartData.now
    /\ SumCounts(chartData.entries) < Len(conversation_history)

\* C4: the window is closed on both ends: the events exactly at startTime are
\* counted in the first bucket and the events exactly at now in the last one.
WindowIsClosed ==
    Ran =>
        LET n == Len(chartData.entries)
            first == chartData.entries[1]
            last == chartData.entries[n]
            interval == IntervalMs(chartData.range)
        IN  /\ n >= 1
            /\ IsKeyOf(first.timestamp, chartData.startTime, interval)
            /\ IsKeyOf(last.timestamp, chartData.now, interval)
            /\ first.conversations >=
                  Cardinality(EventsWithin(chartData.startTime, chartData.startTime))
            /\ last.conversations >=
                  Cardinality(EventsWithin(chartData.now, chartData.now))

\* range 12h, now = 2024-01-02T12:00:00Z, an event at 2024-01-02T00:00:00Z
WindowIsClosedWitness ==
    /\ chartData.range = "12h"
    /\ chartData.now = NoonInstant
    /\ EventsWithin(NoonInstant - 12 * MinutesPerHour,
                    NoonInstant - 12 * MinutesPerHour) # {}
    /\ EventsWithin(NoonInstant, NoonInstant) # {}
    /\ chartData.entries[1].conversations >= 1
    /\ chartData.entries[13].conversations >= 1

\* C5: the Series is strictly ascending by key (no duplicate key, no
\* inversion) and the projection to (label, count) pairs keeps that order.
SeriesIsAscending ==
    Ran =>
        /\ \A i, j \in 1..Len(chartData.entries) :
              i < j => chartData.entries[i].timestamp < chartData.entries[j].timestamp
        /\ Len(chartData.data) = Len(chartData.entries)
        /\ \A i \in 1..Len(chartData.entries) :
              /\ chartData.data[i].time = chartData.entries[i].time
              /\ chartData.data[i].conversations = chartData.entries[i].conversations

SeriesIsAscendingWitness ==
    /\ Ran
    /\ Len(chartData.data) = 31
    /\ ~NowAligned
    /\ chartData.data[1].conversations >= 1
    /\ chartData.data[31].conversations >= 1

\* C6: the keys of a Series are floor(startTime / interval) * interval, then
\* each successive key exactly one interval later, up to and including the key
\* covering now; buckets without events are present with count 0.
KeysCoverWindow ==
    Ran =>
        LET n == Len(chartData.entries)
            interval == IntervalMs(chartData.range)
        IN  /\ n >= 1
            /\ IsKeyOf(chartData.entries[1].timestamp, chartData.startTime, interval)
            /\ IsKeyOf(chartData.entries[n].timestamp, chartData.now, interval)
            /\ \A i \in 1..(n - 1) :
                  chartData.entries[i + 1].timestamp =
                      chartData.entries[i].timestamp + interval

KeysCoverWindowWitness ==
    /\ Ran
    /\ ~NowAligned
    /\ \E j \in 1..Len(chartData.entries) : chartData.entries[j].conversations = 0
    /\ \E j \in 1..Len(chartData.entries) : chartData.entries[j].conversations >= 2

\* C7 as stated: each bucket's count is the number of events of the input
\* collection whose interval-aligned timestamp equals the bucket's key.
CountIsEventsOfKey ==
    Ran =>
        \A j \in 1..Len(chartData.entries) :
            chartData.entries[j].conversations =
                Cardinality(EventsOfKey(chartData.entries[j].timestamp,
                                        IntervalMs(chartData.range)))

\* C7: each bucket's count is the number of events of the input collection
\* whose timestamp lies in [startTime, now] and whose interval-aligned
\* timestamp equals the bucket's key.
CountIsInRangeEventsOfKey ==
    Ran =>
        \A j \in 1..Len(chartData.entries) :
            chartData.entries[j].conversations =
                Cardinality(EventsOfKey(chartData.entries[j].timestamp,
                                        IntervalMs(chartData.range))
                            \cap InWindow)

CountIsInRangeEventsWitness ==
    /\ Ran
    /\ \E j \in 1..Len(chartData.entries) :
          /\ chartData.entries[j].conversations >= 1
          /\ EventsOfKey(chartData.entries[j].timestamp,
                         IntervalMs(chartData.range)) \ InWindow # {}

\* C8: each bucket's label is the formatter applied to the bucket's interval
\* start, the instant of its key.
LabelIsOfKey ==
    Ran =>
        \A j \in 1..Len(chartData.entries) :
            chartData.entries[j].time =
                FormatLabel(chartData.range, chartData.entries[j].timestamp,
                            tzOffset)

\* the window shared by the last two computations
OverlapStart ==
    IF prevChartData.startTime > chartData.startTime
    THEN prevChartData.startTime ELSE chartData.startTime
OverlapEnd ==
    IF prevChartData.now < chartData.now THEN prevChartData.now ELSE chartData.now

\* the keys of the buckets of a run whose interval meets [lo, hi]
KeysMeeting(run, lo, hi) ==
    {k \in Keys(run) : k + IntervalMs(run.range) > lo /\ k <= hi}

\* C9: keys are aligned to the epoch, not to startTime: two computations with
\* the same range and different now whose windows overlap have the same keys
\* over the overlap, and an event lying in both windows has the same key in both.
KeysAreEpochAligned ==
    (/\ Ran
     /\ HasPrev
     /\ prevChartData.range = chartData.range
     /\ prevChartData.now # chartData.now
     /\ OverlapStart <= OverlapEnd)
    =>
        /\ KeysMeeting(prevChartData, OverlapStart, OverlapEnd)
              = KeysMeeting(chartData, OverlapStart, OverlapEnd)
        /\ \A i \in EventsWithin(OverlapStart, OverlapEnd) :
              \E k \in Keys(prevChartData) \cap Keys(chartData) :
                  IsKeyOf(k, conversation_history[i].created_at.instant,
                          IntervalMs(chartData.range))

KeysAreEpochAlignedWitness ==
    /\ Ran
    /\ HasPrev
    /\ prevChartData.now # chartData.now
    /\ Keys(prevChartData) # Keys(chartData)
    /\ EventsWithin(OverlapStart, OverlapEnd) # {}
    /\ SumCounts(prevChartData.entries) # SumCounts(chartData.entries)

\* C10: bucketizing an empty collection gives a Series of the expected length
\* for the range in which every count is 0.
EmptyHistoryGivesZeroSeries ==
    (Ran /\ conversation_history = <<>>) =>
        /\ Len(chartData.data) = ExpectedBuckets(chartData.range)
        /\ \A j \in 1..Len(chartData.data) : chartData.data[j].conversations = 0

EmptyHistoryWitness ==
    /\ Ran
    /\ conversation_history = <<>>
    /\ ~NowAligned
    /\ Len(chartData.data) = 13
    /\ chartData.range = "1d"

\* the input collection in the opposite order
ReversedHistory ==
    [i \in 1..Len(conversation_history) |->
        conversation_history[Len(conversation_history) + 1 - i]]

\* C11: two computations with the same events, range and now yield the same
\* Series (same length, labels and counts in the same order), whatever the
\* order of the events in the collection.
SameInputsSameSeries ==
    (Ran /\ HasPrev /\ prevChartData.now = chartData.now
         /\ prevChartData.range = chartData.range)
      => /\ prevChartData.data = chartData.data
         /\ Len(prevChartData.data) = Len(chartData.data)

SameInputsWitness ==
    /\ Ran
    /\ HasPrev
    /\ prevChartData.now = chartData.now
    /\ Len(conversation_history) = 3
    /\ ReversedHistory # conversation_history
    /\ Cardinality(InWindow) = 2
    /\ \E j \in 1..Len(chartData.data) : chartData.data[j].conversations = 1
    /\ 2 \notin InWindow

\* the instants of the events of the input collection (parseable ones)
EventInstant(i) == conversation_history[i].created_at.instant

\* exactly three events, all of them inside the window of a 7d computation
ThreeEventsInSevenDays ==
    /\ Ran
    /\ chartData.range = "7d"
    /\ Len(conversation_history) = 3
    /\ InWindow = {1, 2, 3}

\* 8 buckets, one of them with count 3 and all the others with count 0
OneBucketOfThree ==
    /\ Len(chartData.data) = 8
    /\ \E j \in 1..Len(chartData.data) :
          /\ chartData.data[j].conversations = 3
          /\ \A k \in 1..Len(chartData.data) :
                k # j => chartData.data[k].conversations = 0

\* C12 as stated: with range 7d and three events on the same calendar day (the
\* day the formatter shows, in the local time zone) inside the window, the
\* Series has 8 buckets, one with count 3 and the others with count 0.
ThreeOnOneCalendarDay ==
    (/\ ThreeEventsInSevenDays
     /\ \A i \in {2, 3} :
           ToLocaleDateString(EventInstant(i), tzOffset)
               = ToLocaleDateString(EventInstant(1), tzOffset))
    => OneBucketOfThree

\* C12: with range 7d and three events on the same UTC calendar day inside the
\* window, the Series has 8 buckets, one with count 3 and the others with count 0.
ThreeOnOneUtcDay ==
    (/\ ThreeEventsInSevenDays
     /\ \A i \in {2, 3} :
           EventInstant(i) \div MinutesPerDay = EventInstant(1) \div MinutesPerDay)
    => OneBucketOfThree

ThreeOnOneUtcDayWitness ==
    /\ ThreeEventsInSevenDays
    /\ \A i \in {2, 3} :
          EventInstant(i) \div MinutesPerDay = EventInstant(1) \div MinutesPerDay
    /\ EventInstant(1) # EventInstant(2)
    /\ tzOffset # 0
    /\ OneBucketOfThree

HasUnparseable ==
    \E i \in 1..Len(conversation_history) : ~conversation_history[i].created_at.iso

\* C13: when an input event has an unparseable timestamp the computation fails
\* as a whole: no Series is returned for such a collection.
UnparseableFailsComputation ==
    HasUnparseable => ~Ran

\* C19: an event whose timestamp does not parse is dropped silently: a Series
\* is returned, it has the length of the range, the event is counted in no
\* bucket, and every count is the one of the collection without that event.
UnparseableIsDropped ==
    (Ran /\ HasUnparseable) =>
        /\ Len(chartData.data) = ExpectedBuckets(chartData.range)
        /\ SumCounts(chartData.entries) = Cardinality(InWindow)
        /\ \A j \in 1..Len(chartData.entries) :
              chartData.entries[j].conversations =
                  Cardinality({i \in InWindow :
                      IsKeyOf(chartData.entries[j].timestamp, EventInstant(i),
                              IntervalMs(chartData.range))})

UnparseableIsDroppedWitness ==
    /\ Ran
    /\ HasUnparseable
    /\ Len(conversation_history) = 3
    /\ Cardinality(InWindow) = 2
    /\ ~conversation_history[2].created_at.iso

----------------------------------------------------------------------------
(* DashboardEntry.processTimelineData: the two-series callback.  The two   *)
(* Maps hold references to bucket objects { label, count }; `heap` is the  *)
(* sequence of the objects allocated so far, a reference is an index.      *)

RefMapHas(map, key) == \E i \in 1..Len(map) : map[i].timestamp = key

\* buckets.get(key), for a key that is present
RefMapGet(map, key) == map[CHOOSE i \in 1..Len(map) : map[i].timestamp = key].ref

\* buckets.set(key, object)
RefMapSet(map, key, ref) ==
    IF RefMapHas(map, key)
    THEN [i \in 1..Len(map) |->
            IF map[i].timestamp = key
            THEN [timestamp |-> key, ref |-> ref]
            ELSE map[i]]
    ELSE Append(map, [timestamp |-> key, ref |-> ref])

\* the object literal { label, count: 0 }
NewBucket(label) == [label |-> label, count |-> 0]

NoMemory == [heap |-> <<>>, userBuckets |-> <<>>, conversationBuckets |-> <<>>]

\* one object literal { label, count: 0 } put into both Maps
SetSharedBucket(memory, bucketTimestamp, label) ==
    [heap |-> Append(memory.heap, NewBucket(label)),
     userBuckets |->
         RefMapSet(memory.userBuckets, bucketTimestamp, Len(memory.heap) + 1),
     conversationBuckets |->
         RefMapSet(memory.conversationBuckets, bucketTimestamp,
                   Len(memory.heap) + 1)]

\* userBuckets.set(bucketTimestamp, { label, count: 0 });
\* conversationBuckets.set(bucketTimestamp, { label, count: 0 });
SetBothBuckets(memory, bucketTimestamp, label) ==
    [heap |-> memory.heap \o <<NewBucket(label), NewBucket(label)>>,
     userBuckets |->
         RefMapSet(memory.userBuckets, bucketTimestamp, Len(memory.heap) + 1),
     conversationBuckets |->
         RefMapSet(memory.conversationBuckets, bucketTimestamp,
                   Len(memory.heap) + 2)]

RECURSIVE InitializeBothBuckets(_, _, _, _, _, _)
\* while (currentTime <= now) { ...; currentTime = new Date(currentTime.getTime() + intervalMs); }
InitializeBothBuckets(currentTime, now, intervalMs, range, tz, memory) ==
    IF currentTime > now
    THEN memory
    ELSE IF currentTime + intervalMs > now
    THEN SetBothBuckets(memory, BucketTimestamp(currentTime, intervalMs),
                        FormatLabel(range, currentTime, tz))
    ELSE CHOOSE result \in
            {InitializeBothBuckets(MiddleCursor(currentTime, now, intervalMs),
                 now, intervalMs, range, tz, firstHalf) :
               firstHalf \in
                 {InitializeBothBuckets(currentTime,
                      MiddleCursor(currentTime, now, intervalMs) - 1,
                      intervalMs, range, tz, memory)}} : TRUE

RECURSIVE CountInto(_, _, _, _)
\* filtered.forEach((e) => { const bucket = buckets.get(bucketTimestamp);
\*                           if (bucket) { bucket.count += 1; } })
CountInto(filtered, buckets, heap, intervalMs) ==
    IF filtered = <<>>
    THEN heap
    ELSE LET date == NewDate(Head(filtered).created_at)
             bucketTimestamp == BucketTimestamp(date.time, intervalMs)
         IN  CountInto(Tail(filtered), buckets,
                 IF RefMapHas(buckets, bucketTimestamp)
                 THEN [heap EXCEPT ![RefMapGet(buckets, bucketTimestamp)].count = @ + 1]
                 ELSE heap,
                 intervalMs)

\* Array.from(userBuckets.entries()).map(([timestamp, { label, count }]) => ...)
ToUserEntries(buckets, heap) ==
    [i \in 1..Len(buckets) |->
        [time      |-> heap[buckets[i].ref].label,
         users     |-> heap[buckets[i].ref].count,
         timestamp |-> buckets[i].timestamp]]

\* Array.from(conversationBuckets.entries()).map(([timestamp, { label, count }]) => ...)
ToConversationEntries(buckets, heap) ==
    [i \in 1..Len(buckets) |->
        [time          |-> heap[buckets[i].ref].label,
         conversations |-> heap[buckets[i].ref].count,
         timestamp     |-> buckets[i].timestamp]]

\* .map(({ time, users }) => ({ time, users }))
RemoveUserTimestamp(entries) ==
    [i \in 1..Len(entries) |->
        [time |-> entries[i].time, users |-> entries[i].users]]

RefsOf(buckets) == {buckets[i].ref : i \in 1..Len(buckets)}

\* One run of the useMemo callback of processTimelineData
ProcessTimelineData(statsValue, range, now, tz) ==
    LET startTime == StartTime(range, now)
        intervalMs == IntervalMs(range)
        filteredUsers ==
            FilterConversations(statsValue.all_users_timeline, startTime, now)
        filteredConversations ==
            FilterConversations(statsValue.conversation_history, startTime, now)
        memory == InitializeBothBuckets(startTime, now, intervalMs, range, tz,
                                        NoMemory)
        counted == CountInto(filteredUsers, memory.userBuckets, memory.heap,
                             intervalMs)
        heap == CountInto(filteredConversations, memory.conversationBuckets,
                          counted, intervalMs)
        userEntries == SortByTimestamp(ToUserEntries(memory.userBuckets, heap))
        conversationEntries ==
            SortByTimestamp(ToConversationEntries(memory.conversationBuckets, heap))
    IN  [userChartData |->
            [now |-> now, startTime |-> startTime, range |-> range,
             entries |-> userEntries,
             data |-> RemoveUserTimestamp(userEntries)],
         conversationChartData |->
            [now |-> now, startTime |-> startTime, range |-> range,
             entries |-> conversationEntries,
             data |-> RemoveTimestamp(conversationEntries)],
         refs |-> [users |-> RefsOf(memory.userBuckets),
                   conversations |-> RefsOf(memory.conversationBuckets)]]

----------------------------------------------------------------------------
(* The component DashboardEntry *)

\* the created_at values of the provider's records when the clock reads c0
EntryCreatedAtValues(c0) ==
    {IsoString(c0 - Lookback("7d")), IsoString(c0), IsoString(c0 + 1)}

\* the bodies the provider may answer getStats with
StatsBodies(c0) ==
    {[conversation_history |-> [i \in 1..Len(h) |-> Conversation(h[i])],
      all_users_timeline   |-> [i \in 1..Len(u) |-> Conversation(u[i])],
      isNull               |-> FALSE] :
        h \in SeqsUpTo(EntryCreatedAtValues(c0), MaxHistory),
        u \in SeqsUpTo(EntryCreatedAtValues(c0), MaxTimeline)}

\* useState initial values; the effect has called getStats()
EntryInit ==
    /\ AppIdle
    /\ DateRangeIdle
    /\ ComponentsIdle
    /\ stats = NoStats
    /\ entryLoading = TRUE
    /\ entryError = "null"
    /\ timeRange = "7d"
    /\ getStatsCall = "pending"
    /\ chartData = NoRun
    /\ userChartData = NoRun
    /\ bucketRefs = NoRefs
    /\ provided = NoStats
    /\ clock \in InitialClocks
    /\ tzOffset \in TzOffsets
    /\ ticks = 0
    /\ conversation_history = <<>>
    /\ prevChartData = NoRun

EntryTick ==
    /\ ticks < MaxEntryTicks
    /\ ticks' = ticks + 1
    /\ clock' = clock + 1
    /\ UNCHANGED <<timeRange, tzOffset, chartData, chartVars, entryVars, appVars, dateVars, componentVars>>

\* getStats() resolves: response.ok, the body is stored, and the render that
\* follows runs the memo callback on the new stats
GetStatsResolves ==
    /\ getStatsCall = "pending"
    /\ \E body \in StatsBodies(clock) :
          LET run == ProcessTimelineData(body, timeRange, clock, tzOffset)
          IN  /\ stats' = body
              /\ provided' = body
              /\ chartData' = run.conversationChartData
              /\ userChartData' = run.userChartData
              /\ bucketRefs' = run.refs
    /\ entryError' = "null"
    /\ entryLoading' = FALSE
    /\ getStatsCall' = "settled"
    /\ UNCHANGED <<timeRange, clock, tzOffset, ticks, chartVars, appVars, dateVars, componentVars>>

\* the catch branch without the finally block: loading is never turned off
GetStatsThrowsNoFinally ==
    /\ getStatsCall = "pending"
    /\ \E message \in {"Failed to fetch", "Failed to fetch stats: 500"} :
          entryError' = message
    /\ getStatsCall' = "settled"
    /\ UNCHANGED <<stats, entryLoading, provided, chartData, userChartData, bucketRefs,
                   timeRange, clock, tzOffset, ticks, chartVars, appVars, dateVars, componentVars>>

\* getStats() throws: fetch rejected, or the response was not ok
GetStatsThrows ==
    /\ getStatsCall = "pending"
    /\ \E message \in {"Failed to fetch", "Failed to fetch stats: 500"} :
          entryError' = message
    /\ entryLoading' = FALSE
    /\ getStatsCall' = "settled"
    /\ UNCHANGED <<stats, provided, chartData, userChartData, bucketRefs,
                   timeRange, clock, tzOffset, ticks, chartVars, appVars, dateVars, componentVars>>

\* the deps [stats, timeRange] did not change: the memo keeps its value
SetTimeRangeStale(range) ==
    /\ ~entryLoading
    /\ entryError = "null"
    /\ ~stats.isNull
    /\ range # timeRange
    /\ timeRange' = range
    /\ UNCHANGED <<chartData, userChartData, bucketRefs, stats, provided,
                   entryLoading, entryError, getStatsCall, clock, tzOffset,
                   ticks, chartVars, appVars, dateVars, componentVars>>

\* onClick={() => setTimeRange(range)} on a rendered button, and the render
\* that follows: timeRange changed, so the memo callback runs again
SetTimeRange(range) ==
    /\ ~entryLoading
    /\ entryError = "null"
    /\ ~stats.isNull
    /\ range # timeRange
    /\ timeRange' = range
    /\ LET run == ProcessTimelineData(stats, range, clock, tzOffset)
       IN  /\ chartData' = run.conversationChartData
           /\ userChartData' = run.userChartData
           /\ bucketRefs' = run.refs
    /\ UNCHANGED <<stats, provided, entryLoading, entryError, getStatsCall,
                   clock, tzOffset, ticks, chartVars, appVars, dateVars, componentVars>>

EntryNext ==
    \/ EntryTick
    \/ GetStatsResolves
    \/ GetStatsThrows
    \/ \E range \in TimeRange : SetTimeRange(range)

SpecEntry == EntryInit /\ [][EntryNext]_vars

----------------------------------------------------------------------------
(* Properties of DashboardEntry *)

Loaded == ~stats.isNull

\* the events of a collection whose timestamp parses, lies in the window of
\* the run and has key as its interval-aligned timestamp
CountedIn(events, run, key) ==
    {i \in 1..Len(events) :
        /\ events[i].created_at.iso
        /\ events[i].created_at.instant >= run.startTime
        /\ events[i].created_at.instant <= run.now
        /\ IsKeyOf(key, events[i].created_at.instant, IntervalMs(run.range))}

\* the events of a collection whose timestamp parses and lies in the window
WithinRun(events, run) ==
    {i \in 1..Len(events) :
        /\ events[i].created_at.iso
        /\ events[i].created_at.instant >= run.startTime
        /\ events[i].created_at.instant <= run.now}

RECURSIVE SumUsers(_)
SumUsers(entries) ==
    IF entries = <<>>
    THEN 0
    ELSE IF Len(entries) = 1
    THEN entries[1].users
    ELSE SumUsers(SubSeq(entries, 1, Len(entries) \div 2))
            + SumUsers(SubSeq(entries, Len(entries) \div 2 + 1, Len(entries)))

\* C15: in DashboardEntry the displayed Series are, after any stats load and
\* any sequence of range selections, the ones of the current stats and the
\* currently selected range: they have the selected range's window and bucket
\* count, and every bucket holds exactly the number of the current
\* collection's events of that window and interval, nothing carried over.
SeriesIsOfCurrentInputs ==
    IF Loaded
    THEN /\ chartData.range = timeRange
         /\ userChartData.range = timeRange
         /\ chartData.now <= clock
         /\ userChartData.now = chartData.now
         /\ chartData.startTime = chartData.now - Lookback(timeRange)
         /\ userChartData.startTime = chartData.startTime
         /\ Len(chartData.data) = ExpectedBuckets(timeRange)
         /\ Len(userChartData.data) = ExpectedBuckets(timeRange)
         /\ \A j \in 1..Len(chartData.entries) :
               chartData.entries[j].conversations =
                   Cardinality(CountedIn(stats.conversation_history, chartData,
                                         chartData.entries[j].timestamp))
         /\ \A j \in 1..Len(userChartData.entries) :
               userChartData.entries[j].users =
                   Cardinality(CountedIn(stats.all_users_timeline, userChartData,
                                         userChartData.entries[j].timestamp))
    ELSE chartData = NoRun /\ userChartData = NoRun

\* 12h selected after the load: the conversation of seven days before the
\* load, counted in the first Series, is in no bucket of the displayed one
SeriesIsOfCurrentInputsWitness ==
    /\ Loaded
    /\ timeRange = "12h"
    /\ Len(stats.conversation_history) = 1
    /\ stats.conversation_history[1].created_at.instant < chartData.startTime
    /\ stats.conversation_history[1].created_at.instant
          >= chartData.now - MaxEntryTicks - Lookback("7d")
    /\ SumCounts(chartData.entries) = 0
    /\ SumUsers(userChartData.entries) = 1

\* C20: bucketizing changes nothing but its result: stats still holds the
\* collections the provider returned, and in the two-series computation no
\* bucket object belongs to both Series, so each Series counts the events of
\* its own collection only.
BucketizingIsPure ==
    Loaded =>
        /\ stats = provided
        /\ bucketRefs.users \cap bucketRefs.conversations = {}
        /\ Cardinality(bucketRefs.users) = Len(userChartData.entries)
        /\ Cardinality(bucketRefs.conversations) = Len(chartData.entries)
        /\ SumUsers(userChartData.entries) =
              Cardinality(WithinRun(stats.all_users_timeline, userChartData))
        /\ SumCounts(chartData.entries) =
              Cardinality(WithinRun(stats.conversation_history, chartData))

\* a user and a conversation of the same interval: one count in each Series
BucketizingIsPureWitness ==
    /\ Loaded
    /\ Len(stats.all_users_timeline) = 1
    /\ Len(stats.conversation_history) = 1
    /\ stats.all_users_timeline[1].created_at
          = stats.conversation_history[1].created_at
    /\ \E j \in 1..Len(chartData.entries) :
          /\ chartData.entries[j].conversations = 1
          /\ userChartData.entries[j].users = 1
          /\ userChartData.entries[j].timestamp = chartData.entries[j].timestamp

\* What DashboardEntry returns: the render guards, in order
EntryRender ==
    IF entryLoading
    THEN [view |-> "loading", message |-> "null"]
    ELSE IF entryError # "null"
    THEN [view |-> "error", message |-> entryError]
    ELSE IF stats.isNull
    THEN [view |-> "null", message |-> "null"]
    ELSE [view |-> "dashboard", message |-> "null"]

FetchSettled == getStatsCall = "settled"

FetchSucceeded == Loaded /\ entryError = "null"

FetchFailed == ~Loaded /\ entryError # "null"

\* C21: once the single stats fetch has settled, loading is false and exactly
\* one of success (stats set, error null) and failure (error set, stats null)
\* holds; on failure the error message is what is rendered and both chart
\* series are empty; and a settled fetch is never issued again.
SettledFetchIsFinal ==
    /\ [](FetchSettled =>
            /\ ~entryLoading
            /\ FetchSucceeded # FetchFailed
            /\ FetchFailed =>
                  /\ EntryRender = [view |-> "error", message |-> entryError]
                  /\ chartData.data = <<>>
                  /\ userChartData.data = <<>>)
    /\ [][FetchSettled => FetchSettled']_vars

SettledFetchIsFinalWitness ==
    /\ FetchSettled
    /\ FetchFailed
    /\ entryError = "Failed to fetch stats: 500"
    /\ ticks > 0

----------------------------------------------------------------------------
(* App.getDateRange *)

\* 2024-03-25, as a day number of the epoch
FirstDay == 19807

LeapYear(y) == (y % 4 = 0 /\ y % 100 # 0) \/ y % 400 = 0

DaysInMonth(y, m) ==
    IF m = 2
    THEN (IF LeapYear(y) THEN 29 ELSE 28)
    ELSE IF m \in {4, 6, 9, 11} THEN 30 ELSE 31

\* subDays(date, amount), on the local calendar date of `date`
SubDays(dayNumber, amount) == CivilFromDays(dayNumber - amount)

\* subMonths(date, amount): the same day of the earlier month, or that
\* month's last day when it is shorter
SubMonths(dayNumber, amount) ==
    LET date == CivilFromDays(dayNumber)
        months == date.year * 12 + (date.month - 1) - amount
        y == months \div 12
        m == (months % 12) + 1
    IN  [year |-> y, month |-> m,
         day |-> IF date.day > DaysInMonth(y, m)
                 THEN DaysInMonth(y, m)
                 ELSE date.day]

\* format(date, 'yyyy-MM-dd'): the fields of the text, in its order
Format(date) == <<date.year, date.month, date.day>>

\* getDateRange(range), called when the clock reads `now`
GetDateRange(range, now, tz) ==
    LET endDate == LocalMinutes(now, tz) \div MinutesPerDay
        startDate ==
            CASE range = "2d" -> SubDays(endDate, 1)
              [] range = "1w" -> SubDays(endDate, 6)
              [] range = "1m" -> SubMonths(endDate, 1)
              [] range = "3m" -> SubMonths(endDate, 3)
              [] range = "6m" -> SubMonths(endDate, 6)
              [] OTHER        -> SubDays(endDate, 6)
    IN  [startDate |-> Format(startDate),
         endDate   |-> Format(CivilFromDays(endDate))]

\* a value the type TimeRange of App does not have
OtherRange == "12h"

\* getDateRange is about to be called, on some day and in some time zone
DateRangeInit ==
    /\ EntryIdle
    /\ AppIdle
    /\ DateRangeIdle
    /\ ComponentsIdle
    /\ \E d \in 0..MaxDays :
          clock = FirstDay * MinutesPerDay + d * MinutesPerDay + MinutesPerHour
    /\ tzOffset \in TzOffsets
    /\ timeRange = "7d"
    /\ conversation_history = <<>>
    /\ ticks = 0
    /\ chartData = NoRun
    /\ prevChartData = NoRun

CallGetDateRange(range) ==
    /\ rangeArgument = "none"
    /\ rangeArgument' = range
    /\ dateRange' = GetDateRange(range, clock, tzOffset)
    /\ UNCHANGED <<conversation_history, timeRange, clock, tzOffset, ticks,
                   chartData, prevChartData, entryVars, appVars, componentVars>>

DateRangeNext == \E range \in AppTimeRange \cup {OtherRange} : CallGetDateRange(range)

SpecDateRange == DateRangeInit /\ [][DateRangeNext]_vars

----------------------------------------------------------------------------
(* The component App *)

\* the frame of App's actions: DashboardEntry and getDateRange's caller
notAppVars == <<conversation_history, timeRange, clock, tzOffset, ticks,
                chartData, prevChartData, entryVars, dateVars, componentVars>>

AppInit ==
    /\ EntryIdle
    /\ AppIdle
    /\ DateRangeIdle
    /\ ComponentsIdle
    /\ clock = NoonInstant
    /\ tzOffset = 0
    /\ timeRange = "7d"
    /\ conversation_history = <<>>
    /\ ticks = 0
    /\ chartData = NoRun
    /\ prevChartData = NoRun

Min(a, b) == IF a < b THEN a ELSE b

\* the increment without the clamp of Math.min
UpdateProgressUnclamped(prev) == prev + 20

\* setLoadingProgress(prev => Math.min(prev + 20, 90))
UpdateProgress(prev) == Min(prev + 20, 90)

\* the fetch of fetchTimeRangeData(range, type), awaiting its response
TimeRangeCall(id, range, type, origin) ==
    [id |-> id, range |-> range, type |-> type, origin |-> origin,
     endpoint |-> IF type = "users"
                  THEN "get_daily_registered_user_count"
                  ELSE "get_daily_conversation_count",
     body |-> GetDateRange(range, clock, tzOffset)]

\* the first render's effects: fetchData runs up to its first await, and
\* each of the two time-range effects calls fetchTimeRangeData
AppMount ==
    /\ fetchData = "idle"
    /\ loadingProgress' = 10
    /\ issued' = {1}
    /\ fetchData' = "fetch"
    /\ calls' = {TimeRangeCall(1, userTimeRange, "users", "effect"),
                 TimeRangeCall(2, conversationTimeRange, "conversations",
                               "effect")}
    /\ callsIssued' = 2
    /\ UNCHANGED <<loading, totalUsers, totalConversations, educationStats,
                   conversations, notes, dailyUsers, dailyConversations,
                   userTimeRange, conversationTimeRange, responded, timer,
                   view, notAppVars>>

\* the awaited fetch() resolves with a Response, of whatever status:
\* updateProgress(), then the next fetch, or the Promise.all of the bodies
StatsResponds ==
    /\ fetchData = "fetch"
    /\ LET request == Cardinality(issued)
       IN  /\ responded' = responded \cup {request}
           /\ IF request < Len(StatsEndpoints)
              THEN /\ issued' = issued \cup {request + 1}
                   /\ fetchData' = "fetch"
              ELSE /\ issued' = issued
                   /\ fetchData' = "json"
    /\ loadingProgress' = UpdateProgress(loadingProgress)
    /\ UNCHANGED <<loading, totalUsers, totalConversations, educationStats,
                   conversations, notes, dailyUsers, dailyConversations,
                   userTimeRange, conversationTimeRange, calls, callsIssued,
                   timer, view, notAppVars>>

\* a catch branch that only logs the error
StatsRejectsKeepsLoading ==
    /\ fetchData = "fetch"
    /\ fetchData' = "caught"
    /\ UNCHANGED <<loading, loadingProgress, totalUsers, totalConversations,
                   educationStats, conversations, notes, dailyUsers,
                   dailyConversations, userTimeRange, conversationTimeRange,
                   issued, responded, calls, callsIssued, timer, view, notAppVars>>

\* the awaited fetch() rejects: catch { setLoading(false) }
StatsRejects ==
    /\ fetchData = "fetch"
    /\ fetchData' = "caught"
    /\ loading' = FALSE
    /\ UNCHANGED <<loadingProgress, totalUsers, totalConversations,
                   educationStats, conversations, notes, dailyUsers,
                   dailyConversations, userTimeRange, conversationTimeRange,
                   issued, responded, calls, callsIssued, timer, view, notAppVars>>

\* the two calls of fetchTimeRangeData that fetchData joins on
JoinedCalls ==
    {TimeRangeCall(callsIssued + 1, userTimeRange, "users", "fetchData"),
     TimeRangeCall(callsIssued + 2, conversationTimeRange, "conversations",
                   "fetchData")}

\* the five bodies parse, and loading is turned off at once
JsonResolvesUnblocking ==
    /\ fetchData = "json"
    /\ totalUsers' = "count"
    /\ totalConversations' = "count"
    /\ educationStats' = "data"
    /\ conversations' = <<"conversation">>
    /\ notes' = <<"note">>
    /\ calls' = calls \cup JoinedCalls
    /\ callsIssued' = callsIssued + 2
    /\ fetchData' = "daily"
    /\ loading' = FALSE
    /\ UNCHANGED <<loadingProgress, dailyUsers, dailyConversations,
                   userTimeRange, conversationTimeRange, issued, responded,
                   timer, view, notAppVars>>

\* the five bodies parse: the five setters, then the two calls of
\* fetchTimeRangeData, up to the await of their Promise.all
JsonResolves ==
    /\ fetchData = "json"
    /\ totalUsers' = "count"
    /\ totalConversations' = "count"
    /\ educationStats' = "data"
    /\ conversations' = <<"conversation">>
    /\ notes' = <<"note">>
    /\ calls' = calls \cup JoinedCalls
    /\ callsIssued' = callsIssued + 2
    /\ fetchData' = "daily"
    /\ UNCHANGED <<loading, loadingProgress, dailyUsers, dailyConversations,
                   userTimeRange, conversationTimeRange, issued, responded,
                   timer, view, notAppVars>>

\* one of the five bodies is not JSON: catch { setLoading(false) }
JsonRejects ==
    /\ fetchData = "json"
    /\ fetchData' = "caught"
    /\ loading' = FALSE
    /\ UNCHANGED <<loadingProgress, totalUsers, totalConversations,
                   educationStats, conversations, notes, dailyUsers,
                   dailyConversations, userTimeRange, conversationTimeRange,
                   issued, responded, calls, callsIssued, timer, view, notAppVars>>

\* what the provider may answer a fetchTimeRangeData request with: a success
\* status and { data: [...] }, an error status and a JSON body without
\* `data`, or nothing that parses (the fetch or response.json() rejects)
Answers == {"ok", "error", "rejects"}

\* data.data, of the body of an answer that parsed
DataOf(call, answer) ==
    IF answer = "ok"
    THEN [value |-> "data", range |-> call.range, status |-> "ok"]
    ELSE [value |-> "undefined", range |-> call.range, status |-> "error"]

\* a fetchTimeRangeData call settles; when it is the last of the two that
\* fetchData awaits: setLoadingProgress(100) and the setTimeout
TimeRangeCallSettles(call, answer) ==
    /\ call \in calls
    /\ calls' = calls \ {call}
    /\ IF answer = "rejects"
       THEN UNCHANGED <<dailyUsers, dailyConversations>>
       ELSE IF call.type = "users"
            THEN /\ dailyUsers' = DataOf(call, answer)
                 /\ UNCHANGED dailyConversations
            ELSE /\ dailyConversations' = DataOf(call, answer)
                 /\ UNCHANGED dailyUsers
    /\ IF /\ call.origin = "fetchData"
          /\ \A other \in calls \ {call} : other.origin # "fetchData"
       THEN /\ loadingProgress' = 100
            /\ timer' = TRUE
            /\ fetchData' = "done"
       ELSE UNCHANGED <<loadingProgress, timer, fetchData>>
    /\ UNCHANGED <<loading, totalUsers, totalConversations, educationStats,
                   conversations, notes, userTimeRange, conversationTimeRange,
                   issued, responded, callsIssued, view, notAppVars>>

\* setTimeout(() => setLoading(false), 500)
TimerFires ==
    /\ timer
    /\ timer' = FALSE
    /\ loading' = FALSE
    /\ UNCHANGED <<loadingProgress, totalUsers, totalConversations,
                   educationStats, conversations, notes, dailyUsers,
                   dailyConversations, userTimeRange, conversationTimeRange,
                   fetchData, issued, responded, calls, callsIssued,
                   view, notAppVars>>

View == {"dashboard", "recent", "background", "notes"}

\* what App returns: the loading screen, or the page of the selected view;
\* UserBackgroundInfo reads stats.education_levels, a TypeError on null
AppRender ==
    IF loading
    THEN "loading"
    ELSE IF view = "background" /\ educationStats = "null"
    THEN "TypeError"
    ELSE view

\* a navigation button: onClick={() => setView(target)}
SetView(target) ==
    /\ AppRender \in View
    /\ view' = target
    /\ UNCHANGED <<loading, loadingProgress, totalUsers, totalConversations,
                   educationStats, conversations, notes, dailyUsers,
                   dailyConversations, userTimeRange, conversationTimeRange,
                   fetchData, issued, responded, calls, callsIssued, timer,
                   notAppVars>>

\* the selections made so far: each made one call of fetchTimeRangeData
Selections ==
    callsIssued - (IF fetchData = "idle" THEN 0 ELSE 2)
                - (IF fetchData \in {"daily", "done"} THEN 2 ELSE 0)

\* one effect on [userTimeRange, conversationTimeRange] fetching both series
SetUserTimeRangeRefetchingBoth(range) ==
    /\ AppRender = "dashboard"
    /\ range # userTimeRange
    /\ Selections < MaxSelections
    /\ userTimeRange' = range
    /\ calls' = calls \cup
          {TimeRangeCall(callsIssued + 1, range, "users", "effect"),
           TimeRangeCall(callsIssued + 1, conversationTimeRange,
                         "conversations", "effect")}
    /\ callsIssued' = callsIssued + 1
    /\ UNCHANGED <<loading, loadingProgress, totalUsers, totalConversations,
                   educationStats, conversations, notes, dailyUsers,
                   dailyConversations, conversationTimeRange, fetchData,
                   issued, responded, timer, view, notAppVars>>

\* <TimeRangeSelector value={userTimeRange} onChange={(range) => setUserTimeRange(range)} />
\* and the effect on [userTimeRange]
SetUserTimeRange(range) ==
    /\ AppRender = "dashboard"
    /\ range # userTimeRange
    /\ Selections < MaxSelections
    /\ userTimeRange' = range
    /\ calls' = calls \cup {TimeRangeCall(callsIssued + 1, range, "users", "effect")}
    /\ callsIssued' = callsIssued + 1
    /\ UNCHANGED <<loading, loadingProgress, totalUsers, totalConversations,
                   educationStats, conversations, notes, dailyUsers,
                   dailyConversations, conversationTimeRange, fetchData,
                   issued, responded, timer, view, notAppVars>>

\* <TimeRangeSelector value={conversationTimeRange} onChange={...} />
\* and the effect on [conversationTimeRange]
SetConversationTimeRange(range) ==
    /\ AppRender = "dashboard"
    /\ range # conversationTimeRange
    /\ Selections < MaxSelections
    /\ conversationTimeRange' = range
    /\ calls' = calls \cup {TimeRangeCall(callsIssued + 1, range,
                                          "conversations", "effect")}
    /\ callsIssued' = callsIssued + 1
    /\ UNCHANGED <<loading, loadingProgress, totalUsers, totalConversations,
                   educationStats, conversations, notes, dailyUsers,
                   dailyConversations, userTimeRange, fetchData, issued,
                   responded, timer, view, notAppVars>>

AppNext ==
    \/ AppMount
    \/ StatsResponds
    \/ StatsRejects
    \/ JsonResolves
    \/ JsonRejects
    \/ \E call \in calls, answer \in Answers : TimeRangeCallSettles(call, answer)
    \/ TimerFires
    \/ \E range \in AppTimeRange : SetUserTimeRange(range)
    \/ \E range \in AppTimeRange : SetConversationTimeRange(range)
    \/ \E target \in View : SetView(target)

SpecApp == AppInit /\ [][AppNext]_vars

\* every request that was issued is answered or fails, every promise that
\* can settle does, and the browser runs the effects and the timer
AppFairness ==
    /\ WF_vars(AppMount)
    /\ WF_vars(StatsResponds \/ StatsRejects)
    /\ WF_vars(JsonResolves \/ JsonRejects)
    /\ WF_vars(\E call \in calls, answer \in Answers :
                  TimeRangeCallSettles(call, answer))
    /\ WF_vars(TimerFires)

SpecAppLive == SpecApp /\ AppFairness

----------------------------------------------------------------------------
(* The paged components NotesPage, RecentConversations, UserBackgroundInfo *)

\* the longest list has this many full pages
MaxPages == 3

notesPerPage == 25
conversationsPerPage == 50
itemsPerPage == 25

Components == {"NotesPage", "RecentConversations", "UserBackgroundInfo"}

ListComponents == {"NotesPage", "RecentConversations"}

Category == {"education", "fields", "institutions"}

PageSize(c) ==
    CASE c = "NotesPage" -> notesPerPage
      [] c = "RecentConversations" -> conversationsPerPage
      [] OTHER -> itemsPerPage

Max(a, b) == IF a > b THEN a ELSE b

\* Math.ceil(a / b) for a >= 0 and b > 0
Ceil(a, b) == (a + b - 1) \div b

\* getCategoryData().data, as Object.entries lists it
CategoryData(statsValue, category) ==
    CASE category = "education" -> statsValue.education_levels
      [] category = "fields" -> statsValue.study_fields
      [] OTHER -> statsValue.institutions

\* the list the component pages through
ListOf(c, list, statsValue, category) ==
    IF c = "UserBackgroundInfo" THEN CategoryData(statsValue, category) ELSE list

\* Math.ceil(notes.length / notesPerPage)
TotalPagesOf(c, list, statsValue, category) ==
    Ceil(Len(ListOf(c, list, statsValue, category)), PageSize(c))

totalPages == TotalPagesOf(component, items, backgroundStats, activeCategory)

\* the comparators: (a, b) => new Date(b.created_at).getTime() - new
\* Date(a.created_at).getTime(), the same on generated_at, and
\* ([, a], [, b]) => b.count - a.count
Compare(c, a, b) ==
    CASE c = "NotesPage" -> NewDate(b.created_at).time - NewDate(a.created_at).time
      [] c = "RecentConversations" ->
            NewDate(b.generated_at).time - NewDate(a.generated_at).time
      [] OTHER -> b.count - a.count

\* Array.prototype.sort is stable: the item at index i ends up behind every
\* item the comparator puts before it and every earlier item that compares equal
ItemPosition(c, list, i) ==
    1 + Cardinality({j \in 1..Len(list) :
            \/ Compare(c, list[j], list[i]) < 0
            \/ Compare(c, list[j], list[i]) = 0 /\ j < i})

\* the same sort with the comparator's order reversed
SortItemsAscending(c, list) ==
    CHOOSE sorted \in
        {[k \in 1..Len(list) |->
             list[CHOOSE i \in 1..Len(list) : <<Len(list) + 1 - k, i>> \in placed]] :
           placed \in {{<<ItemPosition(c, list, i), i>> : i \in 1..Len(list)}}} : TRUE

\* [...notes].sort(comparator), Object.entries(data).sort(comparator)
SortItems(c, list) ==
    CHOOSE sorted \in
        {[k \in 1..Len(list) |->
             list[CHOOSE i \in 1..Len(list) : <<k, i>> \in placed]] :
           placed \in {{<<ItemPosition(c, list, i), i>> : i \in 1..Len(list)}}} : TRUE

\* Array.prototype.slice(start, end): a negative index counts from the end
SliceIndex(index, length) ==
    IF index < 0 THEN Max(length + index, 0) ELSE Min(index, length)

Slice(list, start, end) ==
    IF SliceIndex(start, Len(list)) >= SliceIndex(end, Len(list))
    THEN <<>>
    ELSE SubSeq(list, SliceIndex(start, Len(list)) + 1, SliceIndex(end, Len(list)))

\* indexOfLastNote = currentPage * notesPerPage
IndexOfLast(c, page) == page * PageSize(c)

\* indexOfFirstNote = indexOfLastNote - notesPerPage
IndexOfFirst(c, page) == IndexOfLast(c, page) - PageSize(c)

\* sortedNotes.slice(indexOfFirstNote, indexOfLastNote)
PageItems(c, sorted, page) ==
    Slice(sorted, IndexOfFirst(c, page), IndexOfLast(c, page))

\* the orders the provider may list the items in
Orders == {"ascending", "descending", "equal", "mixed"}

\* the sort key of the item at index i of n, in minutes or in users
OrderKey(order, i, n) ==
    CASE order = "ascending" -> i
      [] order = "descending" -> n - i
      [] order = "equal" -> 0
      [] OTHER -> (i * 7) % 5

\* lengths around the page boundaries, up to MaxPages full pages
Lengths(size) == {n \in 0..MaxPages * size : n % size \in {0, 1, size - 1}}

NoteInfo(i, key) ==
    [file_name |-> i, created_at |-> IsoString(NoonInstant + key)]

ConversationInfo(i, key) ==
    [conversation_id |-> i, generated_at |-> IsoString(NoonInstant + key)]

\* an entry [name, { count }] of Object.entries
StatInfo(i, key) == [name |-> i, count |-> key]

NotesInputs ==
    {[i \in 1..n |-> NoteInfo(i, OrderKey(order, i, n))] :
        n \in Lengths(notesPerPage), order \in Orders}

ConversationsInputs ==
    {[i \in 1..n |-> ConversationInfo(i, OrderKey(order, i, n))] :
        n \in Lengths(conversationsPerPage), order \in Orders}

CategoryLengths == {0, 1, itemsPerPage, itemsPerPage + 1, MaxPages * itemsPerPage}

CategoryInput(n, order) == [i \in 1..n |-> StatInfo(i, OrderKey(order, i, n))]

EducationStatsInputs ==
    {[education_levels |-> CategoryInput(levels, order),
      study_fields |-> CategoryInput(fields, "mixed"),
      institutions |-> CategoryInput(institutions, "ascending")] :
        levels \in CategoryLengths, fields \in CategoryLengths,
        institutions \in CategoryLengths, order \in {"descending", "mixed"}}

\* the frame of the paged components' actions
notComponentVars == <<conversation_history, timeRange, clock, tzOffset, ticks,
                      chartData, prevChartData, entryVars, appVars, dateVars>>

\* the first render of the mounted component
PagesInit ==
    /\ EntryIdle
    /\ AppIdle
    /\ DateRangeIdle
    /\ clock = NoonInstant
    /\ tzOffset = 0
    /\ timeRange = "7d"
    /\ conversation_history = <<>>
    /\ ticks = 0
    /\ chartData = NoRun
    /\ prevChartData = NoRun
    /\ ratedConversations = <<>>
    /\ averageRating = NoRating
    /\ activeCategory = "education"
    /\ currentPage = 1
    /\ component \in Components
    /\ \/ /\ component = "NotesPage"
          /\ items \in NotesInputs
          /\ backgroundStats = NoEducationStats
       \/ /\ component = "RecentConversations"
          /\ items \in ConversationsInputs
          /\ backgroundStats = NoEducationStats
       \/ /\ component = "UserBackgroundInfo"
          /\ items = <<>>
          /\ backgroundStats \in EducationStatsInputs
    /\ sortedItems =
          SortItems(component, ListOf(component, items, backgroundStats, "education"))
    /\ currentItems = PageItems(component, sortedItems, 1)

\* a render with the page and category just set: a sorted copy of the props
\* is made and sliced, and the props are left as they were
Render(page, category) ==
    /\ sortedItems' =
          SortItems(component, ListOf(component, items, backgroundStats, category))
    /\ currentItems' = PageItems(component, sortedItems', page)
    /\ UNCHANGED <<component, items, backgroundStats>>

\* the top pager of NotesPage and RecentConversations, always rendered:
\* onClick={() => setCurrentPage(p => Math.max(1, p - 1))} disabled={currentPage === 1}
TopPrevious ==
    /\ component \in ListComponents
    /\ currentPage # 1
    /\ currentPage' = Max(1, currentPage - 1)
    /\ Render(currentPage', activeCategory)
    /\ UNCHANGED <<activeCategory, ratedConversations, averageRating,
                   notComponentVars>>

\* onClick={() => setCurrentPage(p => Math.min(totalPages, p + 1))}
\* disabled={currentPage === totalPages}
TopNext ==
    /\ component \in ListComponents
    /\ currentPage # totalPages
    /\ currentPage' = Min(totalPages, currentPage + 1)
    /\ Render(currentPage', activeCategory)
    /\ UNCHANGED <<activeCategory, ratedConversations, averageRating,
                   notComponentVars>>

\* the bottom pager, rendered when totalPages > 1:
\* onClick={() => setCurrentPage(1)} disabled={currentPage === 1}
First ==
    /\ component \in ListComponents
    /\ totalPages > 1
    /\ currentPage # 1
    /\ currentPage' = 1
    /\ Render(currentPage', activeCategory)
    /\ UNCHANGED <<activeCategory, ratedConversations, averageRating,
                   notComponentVars>>

\* Previous of the bottom pager, and of UserBackgroundInfo's only pager
Previous ==
    /\ component \in Components
    /\ totalPages > 1
    /\ currentPage # 1
    /\ currentPage' = Max(1, currentPage - 1)
    /\ Render(currentPage', activeCategory)
    /\ UNCHANGED <<activeCategory, ratedConversations, averageRating,
                   notComponentVars>>

\* Next of the bottom pager, and of UserBackgroundInfo's only pager
NextPage ==
    /\ component \in Components
    /\ totalPages > 1
    /\ currentPage # totalPages
    /\ currentPage' = Min(totalPages, currentPage + 1)
    /\ Render(currentPage', activeCategory)
    /\ UNCHANGED <<activeCategory, ratedConversations, averageRating,
                   notComponentVars>>

\* onClick={() => setCurrentPage(totalPages)} disabled={currentPage === totalPages}
Last ==
    /\ component \in ListComponents
    /\ totalPages > 1
    /\ currentPage # totalPages
    /\ currentPage' = totalPages
    /\ Render(currentPage', activeCategory)
    /\ UNCHANGED <<activeCategory, ratedConversations, averageRating,
                   notComponentVars>>

\* a category button that leaves the page number as it is
SetActiveCategoryKeepingPage(category) ==
    /\ component = "UserBackgroundInfo"
    /\ activeCategory' = category
    /\ Render(currentPage, category)
    /\ UNCHANGED <<currentPage, ratedConversations, averageRating,
                   notComponentVars>>

\* a category button: setActiveCategory(category); setCurrentPage(1);
SetActiveCategory(category) ==
    /\ component = "UserBackgroundInfo"
    /\ activeCategory' = category
    /\ currentPage' = 1
    /\ Render(1, category)
    /\ UNCHANGED <<ratedConversations, averageRating, notComponentVars>>

PagesNext ==
    \/ TopPrevious
    \/ TopNext
    \/ First
    \/ Previous
    \/ NextPage
    \/ Last
    \/ \E category \in Category : SetActiveCategory(category)

SpecPages == PagesInit /\ [][PagesNext]_vars

----------------------------------------------------------------------------
(* calculateAverageRating *)

\* the longest list of conversations a call is given
MaxRated == 3

\* ratings are drawn from 0..MaxRating
MaxRating == 5

\* quality_rating?: number
Undefined == [defined |-> FALSE, value |-> 0]

Number(v) == [defined |-> TRUE, value |-> v]

QualityRatings == {Undefined} \cup {Number(v) : v \in 0..MaxRating}

\* the truthiness of an optional number: undefined and 0 are falsy
Truthy(rating) == rating.defined /\ rating.value # 0

\* conv.quality_rating || 0
OrZero(rating) == IF Truthy(rating) THEN rating.value ELSE 0

\* conversations.filter((c) => c.quality_rating).length
RatingsCount(rated) ==
    Cardinality({i \in 1..Len(rated) : Truthy(rated[i].quality_rating)})

\* conversations.reduce((sum, conv) => sum + (conv.quality_rating || 0), 0)
RECURSIVE TotalRating(_)
TotalRating(rated) ==
    IF rated = <<>>
    THEN 0
    ELSE TotalRating(SubSeq(rated, 1, Len(rated) - 1))
            + OrZero(rated[Len(rated)].quality_rating)

\* the quotient totalRating / ratingsCount, kept as its two terms
Quotient(totalRating, ratingsCount) ==
    [called |-> TRUE, totalRating |-> totalRating, ratingsCount |-> ratingsCount]

\* the total divided by the length of the list
CalculateAverageOverAll(rated) ==
    IF RatingsCount(rated) = 0
    THEN Quotient(0, 1)
    ELSE Quotient(TotalRating(rated), Len(rated))

\* calculateAverageRating(conversations)
CalculateAverageRating(rated) ==
    IF RatingsCount(rated) = 0
    THEN Quotient(0, 1)
    ELSE Quotient(TotalRating(rated), RatingsCount(rated))

RatedConversation(i, rating) == [conversation_id |-> i, quality_rating |-> rating]

RatingInit ==
    /\ EntryIdle
    /\ AppIdle
    /\ DateRangeIdle
    /\ clock = NoonInstant
    /\ tzOffset = 0
    /\ timeRange = "7d"
    /\ conversation_history = <<>>
    /\ ticks = 0
    /\ chartData = NoRun
    /\ prevChartData = NoRun
    /\ component = "none"
    /\ items = <<>>
    /\ backgroundStats = NoEducationStats
    /\ activeCategory = "education"
    /\ currentPage = 1
    /\ sortedItems = <<>>
    /\ currentItems = <<>>
    /\ \E ratings \in SeqsUpTo(QualityRatings, MaxRated) :
          ratedConversations =
              [i \in 1..Len(ratings) |-> RatedConversation(i, ratings[i])]
    /\ averageRating = NoRating

\* <StatCard title="Avg Rating" value={calculateAverageRating(conversations)} />
CallCalculateAverageRating ==
    /\ ~averageRating.called
    /\ averageRating' = CalculateAverageRating(ratedConversations)
    /\ UNCHANGED <<ratedConversations, component, items, backgroundStats,
                   activeCategory, currentPage, sortedItems, currentItems,
                   notComponentVars>>

RatingNext == CallCalculateAverageRating

SpecRating == RatingInit /\ [][RatingNext]_vars

----------------------------------------------------------------------------
(* Properties of App *)

\* the five setters of fetchData have run
Parsed ==
    /\ totalUsers = "count"
    /\ totalConversations = "count"
    /\ educationStats = "data"
    /\ conversations # <<>>
    /\ notes # <<>>

JoinPending == \E call \in calls : call.origin = "fetchData"

\* C14: a range outside the enumerated set makes the range-to-window mapping
\* report a failure: it returns no window, and in particular not the window
\* of another range.
UnsupportedRangeIsReported ==
    (rangeArgument \notin AppTimeRange \cup {"none"}) =>
        /\ dateRange = NoDateRange
        /\ \A range \in AppTimeRange :
              dateRange # GetDateRange(range, clock, tzOffset)

StatsRequestsFanOut ==
    fetchData # "idle" => issued = StatsRequests

\* C18: nothing of a response with a non-success status is stored: the
\* daily series never hold a value taken from such a response.
NonOkResponseStoresNothing ==
    /\ dailyUsers.status # "error"
    /\ dailyConversations.status # "error"

\* every request the component has issued has completed, and no more are due
AllRequestsCompleted ==
    /\ fetchData \in {"done", "caught"}
    /\ calls = {}

\* C22: once every issued request has completed, dailyUsers holds the
\* response to the request for the selected userTimeRange and
\* dailyConversations the one for the selected conversationTimeRange,
\* whatever order the responses arrived in.
SeriesIsOfSelectedRange ==
    AllRequestsCompleted =>
        /\ dailyUsers.status = "ok" => dailyUsers.range = userTimeRange
        /\ dailyConversations.status = "ok" =>
              dailyConversations.range = conversationTimeRange

\* C23: whenever the 'background' view is rendered educationStats is
\* non-null, so UserBackgroundInfo never dereferences a null stats object,
\* after every outcome of the initial load.
BackgroundViewHasStats ==
    (~loading /\ view = "background") => educationStats # "null"

\* C26: during the initial load loadingProgress takes only the values 0, 10,
\* 30, 50, 70, 90 and 100 and never decreases; it does not exceed 90 before
\* all five responses are parsed and both joined daily-series requests have
\* settled, and it is 100 whenever loading is off on the success path.
ProgressIsMonotone ==
    /\ [](/\ loadingProgress \in {0, 10, 30, 50, 70, 90, 100}
          /\ loadingProgress > 90 => (Parsed /\ ~JoinPending)
          /\ (~loading /\ fetchData = "done") => loadingProgress = 100)
    /\ [][loadingProgress' >= loadingProgress]_vars

ProgressIsMonotoneWitness ==
    /\ ~loading
    /\ fetchData = "done"
    /\ loadingProgress = 100
    /\ responded = StatsRequests

\* everything fetchData and fetchTimeRangeData store
fetchedData == <<totalUsers, totalConversations, educationStats, conversations,
                 notes, dailyUsers, dailyConversations>>

\* the requests in flight and the count of those sent
requests == <<issued, calls, callsIssued>>

\* C29: the two chart selectors and the view are independent. A change of
\* userTimeRange issues exactly one request, to the daily registered-user
\* endpoint and for the new range, and leaves conversationTimeRange, view and
\* all fetched data as they are; symmetrically for conversationTimeRange; a
\* change of view issues no request and leaves both ranges and all fetched
\* data as they are.
SelectorsAreIndependent ==
    [][/\ userTimeRange' # userTimeRange =>
            /\ \E call \in calls' \ calls :
                  /\ calls' = calls \cup {call}
                  /\ call.endpoint = "get_daily_registered_user_count"
                  /\ call.range = userTimeRange'
            /\ issued' = issued
            /\ UNCHANGED <<conversationTimeRange, view, fetchedData>>
       /\ conversationTimeRange' # conversationTimeRange =>
            /\ \E call \in calls' \ calls :
                  /\ calls' = calls \cup {call}
                  /\ call.endpoint = "get_daily_conversation_count"
                  /\ call.range = conversationTimeRange'
            /\ issued' = issued
            /\ UNCHANGED <<userTimeRange, view, fetchedData>>
       /\ view' # view =>
            UNCHANGED <<requests, userTimeRange, conversationTimeRange,
                        fetchedData>>]_vars

\* a selection in the users chart followed by a change of view
SelectorsAreIndependentWitness ==
    /\ userTimeRange = "3m"
    /\ conversationTimeRange = "1w"
    /\ view = "notes"
    /\ \E call \in calls : call.range = "3m" /\ call.origin = "effect"

\* C25: provided every issued request eventually resolves or rejects,
\* loading eventually becomes false: on the success path with loadingProgress
\* at 100, on a failure of one of the five initial requests from the catch
\* branch; and once false it never becomes true again.
LoadingEventuallyEnds ==
    /\ <>(~loading)
    /\ [](~loading =>
            \/ fetchData = "done" /\ loadingProgress = 100
            \/ fetchData = "caught")
    /\ [][~loading => ~loading']_vars

\* the third request failed and the catch branch turned loading off
LoadingEventuallyEndsWitness ==
    /\ ~loading
    /\ fetchData = "caught"
    /\ Cardinality(issued) = 3
    /\ Cardinality(responded) = 2

----------------------------------------------------------------------------
(* Properties of the paged components *)

\* C24: in NotesPage and RecentConversations, after any clicks on First,
\* Previous, Next and Last, currentPage is within 1..max(1, totalPages) and
\* the start index of the displayed slice is not negative, the empty list
\* and the top pager included.
PageStaysInRange ==
    component \in ListComponents =>
        /\ currentPage >= 1
        /\ currentPage <= Max(1, totalPages)
        /\ IndexOfFirst(component, currentPage) >= 0

\* the list the mounted component pages through
PagedList == ListOf(component, items, backgroundStats, activeCategory)

\* what the list is ordered by: created_at, generated_at or count
KeyOf(item) ==
    CASE component = "NotesPage" -> item.created_at.instant
      [] component = "RecentConversations" -> item.generated_at.instant
      [] OTHER -> item.count

\* the page, and the place on it, of the k-th item of the sorted list
PageOfIndex(k) == ((k - 1) \div PageSize(component)) + 1

PlaceOfIndex(k) == ((k - 1) % PageSize(component)) + 1

\* C27: pages 1..totalPages partition the sorted list: every item of the list
\* is on exactly one page, every page but the last holds the page size and the
\* last between 1 and the page size, the items are in descending order within
\* and across pages, the page shown is the page of currentPage, and no step
\* modifies the props.
PagesPartitionSortedList ==
    /\ [](component \in Components =>
            /\ Len(sortedItems) = Len(PagedList)
            /\ \A i \in 1..Len(PagedList) :
                  Cardinality({k \in 1..Len(sortedItems) :
                                  sortedItems[k] = PagedList[i]}) = 1
            /\ \A k \in 1..Len(sortedItems) - 1 :
                  KeyOf(sortedItems[k]) >= KeyOf(sortedItems[k + 1])
            /\ \A p \in 1..totalPages :
                  LET page == PageItems(component, sortedItems, p)
                  IN  /\ p < totalPages => Len(page) = PageSize(component)
                      /\ p = totalPages =>
                            /\ Len(page) >= 1
                            /\ Len(page) <= PageSize(component)
                            /\ Len(page) = Len(sortedItems)
                                  - (totalPages - 1) * PageSize(component)
            /\ \A k \in 1..Len(sortedItems) :
                  /\ PageOfIndex(k) <= totalPages
                  /\ PageItems(component, sortedItems, PageOfIndex(k))[PlaceOfIndex(k)]
                        = sortedItems[k]
            /\ currentPage \in 1..totalPages =>
                  currentItems = PageItems(component, sortedItems, currentPage))
    /\ [][items' = items /\ backgroundStats' = backgroundStats]_vars

PagesPartitionSortedListWitness ==
    /\ component = "RecentConversations"
    /\ Len(items) = 2 * conversationsPerPage + 1
    /\ currentPage = 3
    /\ Len(currentItems) = 1
    /\ sortedItems # items
    /\ \E k \in 1..Len(items) - 1 : KeyOf(sortedItems[k]) = KeyOf(sortedItems[k + 1])

\* Math.ceil(Object.entries(data).length / itemsPerPage) of a category
CategoryPages(category) ==
    Ceil(Len(CategoryData(backgroundStats, category)), itemsPerPage)

\* C28: in UserBackgroundInfo, after any category switches and clicks on
\* Previous and Next, 1 <= currentPage <= max(1, totalPages of the active
\* category): a page number reached in a larger category is not carried into
\* a smaller one.
BackgroundPageStaysInRange ==
    component = "UserBackgroundInfo" =>
        /\ currentPage >= 1
        /\ currentPage <= Max(1, CategoryPages(activeCategory))

\* page 2 of a category entered by a switch, next to a category without a
\* second page
BackgroundPageStaysInRangeWitness ==
    /\ component = "UserBackgroundInfo"
    /\ activeCategory = "institutions"
    /\ currentPage = 2
    /\ CategoryPages("institutions") = MaxPages
    /\ CategoryPages("education") = MaxPages
    /\ CategoryPages("fields") = 0
    /\ Len(currentItems) = itemsPerPage

----------------------------------------------------------------------------
(* Properties of calculateAverageRating *)

\* the conversations with a rating that is neither missing nor 0
Rated ==
    {i \in 1..Len(ratedConversations) :
        /\ ratedConversations[i].quality_rating.defined
        /\ ratedConversations[i].quality_rating.value # 0}

RECURSIVE SumOfRatings(_)
SumOfRatings(indices) ==
    IF indices = {}
    THEN 0
    ELSE LET i == CHOOSE i \in indices : TRUE
         IN  ratedConversations[i].quality_rating.value
                + SumOfRatings(indices \ {i})

\* C30: calculateAverageRating returns 0 when no conversation has a non-zero
\* quality_rating; otherwise the result times the number of conversations
\* with a non-zero rating is the sum of those ratings, and the result lies
\* between the smallest and the largest rating present. The result is the
\* quotient totalRating / ratingsCount.
AverageIsOverRatedOnly ==
    averageRating.called =>
        /\ Rated = {} =>
              averageRating.totalRating = 0 /\ averageRating.ratingsCount = 1
        /\ Rated # {} =>
              /\ averageRating.ratingsCount = Cardinality(Rated)
              /\ averageRating.totalRating = SumOfRatings(Rated)
              /\ \A i \in Rated :
                    \/ \E j \in Rated :
                          ratedConversations[j].quality_rating.value
                            < ratedConversations[i].quality_rating.value
                    \/ ratedConversations[i].quality_rating.value
                            * averageRating.ratingsCount
                          <= averageRating.totalRating
              /\ \A i \in Rated :
                    \/ \E j \in Rated :
                          ratedConversations[j].quality_rating.value
                            > ratedConversations[i].quality_rating.value
                    \/ ratedConversations[i].quality_rating.value
                            * averageRating.ratingsCount
                          >= averageRating.totalRating

\* a rating of 0, a missing rating and two different ratings
AverageIsOverRatedOnlyWitness ==
    /\ averageRating.called
    /\ Len(ratedConversations) = MaxRated
    /\ Cardinality(Rated) = 2
    /\ averageRating.totalRating = 7
    /\ \E i \in 1..Len(ratedConversations) :
          ratedConversations[i].quality_rating \in {Undefined, Number(0)}

====
